---- MODULE Spec2Model ----
(***************************************************************************)
(* A model of the libdns provider for INWX (package inwx): the four        *)
(* Provider operations of provider.go, the JSON-RPC client they drive, the  *)
(* record codec, and the remote record store they act on.                   *)
(*                                                                          *)
(* Strings that the code takes apart are sequences:                         *)
(*   - a DNS name is its sequence of labels ("a.z" is <<"a","z">>, the      *)
(*     trailing dot of a fully qualified name is a last empty label);       *)
(*   - a record's data/content is its sequence of space separated fields    *)
(*     ("10 mx" is <<"10","mx">>, the empty string is <<>>).                *)
(* A time.Duration is a number of milliseconds.                             *)
(***************************************************************************)
EXTENDS Naturals, Sequences, FiniteSets, TLC

(***************************************************************************)
(* Bounds of the model.                                                     *)
(***************************************************************************)
\* Longest batch a Provider call is given.
MaxBatch == 2
\* Largest number of records the remote store holds before the first call.
MaxInit == 2
\* Number of goroutines that may call the provider.
NumProcs == 2

(***************************************************************************)
(* Program constants.                                                       *)
(***************************************************************************)
\* time.Second, in the model's unit of time.Duration (milliseconds).
Second == 1000
\* The smallest TTL INWX accepts (ensureMinTTL).
MinTTL == 300
\* checkResponse: the inclusive band of success codes.
CodeOkLow == 1000
CodeOkHigh == 1500

(***************************************************************************)
(* Strings and names.                                                       *)
(***************************************************************************)
\* strings.TrimSuffix on sequences: s without the suffix suf, s when it has none.
IsSuffix(suf, s) ==
    /\ Len(suf) <= Len(s)
    /\ SubSeq(s, Len(s) - Len(suf) + 1, Len(s)) = suf

TrimSuffix(s, suf) ==
    IF suf # <<>> /\ IsSuffix(suf, s) THEN SubSeq(s, 1, Len(s) - Len(suf)) ELSE s

\* The "." that ends a fully qualified name: an empty last label.
Dot == <<"">>

getDomain(zone) == TrimSuffix(zone, Dot)

\* libdns.RelativeName: the name without the zone, "@" for the zone itself.
RelativeName(fqdn, zone) ==
    LET rel == TrimSuffix(TrimSuffix(fqdn, Dot), TrimSuffix(zone, Dot))
    IN  IF rel = <<>> THEN <<"@">> ELSE rel

\* fmt.Sprintf("%d", n) and strconv.ParseUint, on the numbers the model uses.
Dec ==
    (0 :> "0") @@ (1 :> "1") @@ (5 :> "5") @@ (10 :> "10") @@ (20 :> "20")
        @@ (5060 :> "5060")

IsNum(tok) == \E n \in DOMAIN Dec : Dec[n] = tok

Atoi(tok) == CHOOSE n \in DOMAIN Dec : Dec[n] = tok

(***************************************************************************)
(* libdns records.  A record is [kind, type, name, ttl, pri, val]: kind is  *)
(* the Go type (libdns.TXT, MX, SRV, ServiceBinding, or the untyped RR),    *)
(* pri the MX preference / SRV priority / SVCB priority, val the remaining  *)
(* fields of the data (TXT text; MX target; SRV weight, port, target;       *)
(* SVCB target, params; RR: the whole data).                                *)
(***************************************************************************)
SrvPrefix == <<"_sip", "_tcp">>

ParseError ==
    [kind |-> "ERR", type |-> "", name |-> <<>>, ttl |-> 0, pri |-> 0, val |-> <<>>]

\* record.RR(): the canonical (type, name, data, ttl) of a record.
RR(record) ==
    CASE record.kind = "TXT" ->
            [type |-> "TXT", name |-> record.name, data |-> record.val,
             ttl |-> record.ttl]
      [] record.kind = "MX" ->
            [type |-> "MX", name |-> record.name,
             data |-> <<Dec[record.pri]>> \o record.val, ttl |-> record.ttl]
      [] record.kind = "SRV" ->
            [type |-> "SRV", name |-> SrvPrefix \o record.name,
             data |-> <<Dec[record.pri]>> \o record.val, ttl |-> record.ttl]
      [] record.kind = "SVCB" ->
            [type |-> "HTTPS", name |-> record.name,
             data |-> <<Dec[record.pri]>> \o record.val, ttl |-> record.ttl]
      [] OTHER ->
            [type |-> record.type, name |-> record.name, data |-> record.val,
             ttl |-> record.ttl]

\* libdns.RR.Parse: the typed record of an RR, by the grammar of its type.
Parse(rr) ==
    CASE rr.type = "TXT" ->
            [kind |-> "TXT", type |-> "TXT", name |-> rr.name, ttl |-> rr.ttl,
             pri |-> 0, val |-> rr.data]
      [] rr.type = "MX" ->
            IF Len(rr.data) = 2 /\ IsNum(rr.data[1])
            THEN [kind |-> "MX", type |-> "MX", name |-> rr.name, ttl |-> rr.ttl,
                  pri |-> Atoi(rr.data[1]), val |-> Tail(rr.data)]
            ELSE ParseError
      [] rr.type = "SRV" ->
            IF /\ Len(rr.data) = 4
               /\ \A i \in 1..3 : IsNum(rr.data[i])
               /\ Len(rr.name) >= 3
               /\ SubSeq(rr.name, 1, 2) = SrvPrefix
            THEN [kind |-> "SRV", type |-> "SRV",
                  name |-> SubSeq(rr.name, 3, Len(rr.name)), ttl |-> rr.ttl,
                  pri |-> Atoi(rr.data[1]), val |-> Tail(rr.data)]
            ELSE ParseError
      [] rr.type = "HTTPS" ->
            IF Len(rr.data) >= 2 /\ IsNum(rr.data[1])
            THEN [kind |-> "SVCB", type |-> "HTTPS", name |-> rr.name,
                  ttl |-> rr.ttl, pri |-> Atoi(rr.data[1]), val |-> Tail(rr.data)]
            ELSE ParseError
      [] OTHER ->
            [kind |-> "RR", type |-> rr.type, name |-> rr.name, ttl |-> rr.ttl,
             pri |-> 0, val |-> rr.data]

(***************************************************************************)
(* The record codec of provider.go.  A nameserverRecord is                  *)
(* [id, name, type, content, ttl, prio]; id 0 is the unset id "".           *)
(***************************************************************************)
\* inwxRecord with the MX/SRV cases of its type switch left out.
inwxRecordNoSplit(record) ==
    LET rr == RR(record)
    IN  [id |-> 0, name |-> rr.name, type |-> rr.type, content |-> rr.data,
         ttl |-> rr.ttl \div Second, prio |-> 0]

inwxRecord(record) ==
    LET rr == RR(record)
        base == [id |-> 0, name |-> rr.name, type |-> rr.type,
                 content |-> rr.data, ttl |-> rr.ttl \div Second, prio |-> 0]
    IN  CASE record.kind = "MX" ->
                [base EXCEPT !.content = record.val, !.prio = record.pri]
          [] record.kind = "SRV" ->
                [base EXCEPT !.content = record.val, !.prio = record.pri]
          [] OTHER -> base

\* A decoder that leaves the priority out of the data of MX and SRV records.
libdnsRecordNoPriority(record, zone) ==
    Parse([type |-> record.type,
           name |-> RelativeName(record.name, getDomain(zone)),
           data |-> record.content,
           ttl  |-> record.ttl * Second])

libdnsRecord(record, zone) ==
    LET name == RelativeName(record.name, getDomain(zone))
        ttl  == record.ttl * Second
        data == IF record.type = "MX" \/ record.type = "SRV"
                THEN <<Dec[record.prio]>> \o record.content
                ELSE record.content
    IN  Parse([type |-> record.type, name |-> name, data |-> data, ttl |-> ttl])

\* compareRecords of the tests: equal type, name, data and TTL.
compareRecords(lhs, rhs) ==
    /\ RR(lhs).type = RR(rhs).type
    /\ RR(lhs).name = RR(rhs).name
    /\ RR(lhs).data = RR(rhs).data
    /\ RR(lhs).ttl = RR(rhs).ttl

(***************************************************************************)
(* The client of the JSON-RPC API: what each method puts on the wire.       *)
(***************************************************************************)
\* A string field tagged omitempty: left out of the JSON when it is empty.
OmitEmpty(v, empty) == [present |-> v # empty, v |-> v]

\* A field the request always carries.
Always(v) == [present |-> TRUE, v |-> v]

ensureMinTTLNoFloor(ttl) == ttl

ensureMinTTL(ttl) == IF ttl < MinTTL THEN MinTTL ELSE ttl

\* checkResponse: nil (TRUE) exactly for the codes of the success band.
\* A band of success codes without its two ends.
checkResponseExclusive(code) == code > CodeOkLow /\ code < CodeOkHigh

checkResponse(code) == code >= CodeOkLow /\ code <= CodeOkHigh

\* The errorResponse checkResponse makes of a response.
errorResponse(r) ==
    [code |-> r.code, message |-> r.message, reason |-> r.reason,
     reasonCode |-> r.reasonCode]

\* client.getRecords: nameserver.info for the whole domain.
getRecordsRequest(domain) ==
    [domain  |-> OmitEmpty(domain, <<>>),
     name    |-> OmitEmpty(<<>>, <<>>),
     type    |-> OmitEmpty("", ""),
     content |-> OmitEmpty(<<>>, <<>>)]

\* findRecords that leaves the domain out of its request.
findRecordsAnyDomain(record, domain, matchContent) ==
    [domain  |-> OmitEmpty(<<>>, <<>>),
     name    |-> OmitEmpty(record.name, <<>>),
     type    |-> OmitEmpty(record.type, ""),
     content |-> OmitEmpty(IF matchContent THEN record.content ELSE <<>>, <<>>)]

\* findRecords that constrains on the content whatever matchContent says.
findRecordsAlwaysContent(record, domain, matchContent) ==
    [domain  |-> OmitEmpty(domain, <<>>),
     name    |-> OmitEmpty(record.name, <<>>),
     type    |-> OmitEmpty(record.type, ""),
     content |-> OmitEmpty(record.content, <<>>)]

\* client.findRecords: nameserver.info filtered by type and name, and by the
\* content when matchContent is set.
findRecordsRequest(record, domain, matchContent) ==
    [domain  |-> OmitEmpty(domain, <<>>),
     name    |-> OmitEmpty(record.name, <<>>),
     type    |-> OmitEmpty(record.type, ""),
     content |-> OmitEmpty(IF matchContent THEN record.content ELSE <<>>, <<>>)]

\* client.createRecord: nameserver.createRecord.
createRecordRequest(record, domain) ==
    [domain |-> domain, name |-> record.name, type |-> record.type,
     content |-> record.content, ttl |-> ensureMinTTL(record.ttl),
     prio |-> record.prio]

\* client.updateRecord: nameserver.updateRecord, addressed by id.
updateRecordRequest(record) ==
    [id |-> record.id, name |-> record.name, type |-> record.type,
     content |-> record.content, ttl |-> ensureMinTTL(record.ttl),
     prio |-> record.prio]

(***************************************************************************)
(* The remote store behind the API.  An entry is a nameserverRecord and the *)
(* domain it belongs to; the store keeps names fully qualified.             *)
(***************************************************************************)
\* The name the store keeps for a name given relative to the domain.
ServerName(name, domain) ==
    IF IsSuffix(domain, name) THEN name
    ELSE IF name = <<"@">> THEN domain ELSE name \o domain

Matches(e, req) ==
    /\ req.domain.present => e.domain = req.domain.v
    /\ req.name.present => e.name = ServerName(req.name.v, e.domain)
    /\ req.type.present => e.type = req.type.v
    /\ req.content.present => e.content = req.content.v

\* The entries of a set, in the order of their ids.
RECURSIVE ById(_)
ById(S) ==
    IF S = {} THEN <<>>
    ELSE LET e == CHOOSE x \in S : \A y \in S : x.id <= y.id
         IN  <<e>> \o ById(S \ {e})

NativeOf(e) ==
    [id |-> e.id, name |-> e.name, type |-> e.type, content |-> e.content,
     ttl |-> e.ttl, prio |-> e.prio]

\* nameserver.info: the records the request's filters select.
ServerInfo(st, req) ==
    LET sel == ById({e \in st : Matches(e, req)})
    IN  [k \in 1..Len(sel) |-> NativeOf(sel[k])]

\* nameserver.createRecord: a new entry under a fresh id.
ServerCreate(st, id, req) ==
    st \cup {[id |-> id, domain |-> req.domain,
              name |-> ServerName(req.name, req.domain), type |-> req.type,
              content |-> req.content, ttl |-> req.ttl, prio |-> req.prio]}

\* nameserver.updateRecord: the entry of that id rewritten in place.
ServerUpdate(st, req) ==
    {IF e.id = req.id
     THEN [e EXCEPT !.name = ServerName(req.name, e.domain), !.type = req.type,
                    !.content = req.content, !.ttl = req.ttl, !.prio = req.prio]
     ELSE e : e \in st}

\* nameserver.deleteRecord: the entry of that id removed.
ServerDelete(st, id) == {e \in st : e.id # id}

(***************************************************************************)
(* The records callers pass, the zone, and the answers of the remote side.  *)
(***************************************************************************)
Zone == <<"z", "">>

\* Another zone of the account.
OtherZone == <<"y", "">>

TxtA == [kind |-> "TXT", type |-> "TXT", name |-> <<"a">>, ttl |-> 300 * Second,
         pri |-> 0, val |-> <<"v1">>]
\* A TXT record with the empty text, and a TTL under the floor.
TxtE == [kind |-> "TXT", type |-> "TXT", name |-> <<"a">>, ttl |-> 60 * Second,
         pri |-> 0, val |-> <<>>]
TxtB == [kind |-> "TXT", type |-> "TXT", name |-> <<"b">>, ttl |-> 600 * Second,
         pri |-> 0, val |-> <<"v1">>]
MxLo == [kind |-> "MX", type |-> "MX", name |-> <<"a">>, ttl |-> 60 * Second,
         pri |-> 10, val |-> <<"mx">>]
\* The same exchange as MxLo under another preference.
MxHi == [kind |-> "MX", type |-> "MX", name |-> <<"a">>, ttl |-> 300 * Second,
         pri |-> 20, val |-> <<"mx">>]
SrvA == [kind |-> "SRV", type |-> "SRV", name |-> <<"a">>, ttl |-> 300 * Second,
         pri |-> 0, val |-> <<"5", "5060", "sip">>]
SvcA == [kind |-> "SVCB", type |-> "HTTPS", name |-> <<"a">>, ttl |-> 600 * Second,
         pri |-> 1, val |-> <<".", "alpn=h3,h2">>]

\* An MX record passed as an untyped libdns.RR.
RrMx == [kind |-> "RR", type |-> "MX", name |-> <<"a">>, ttl |-> 300 * Second,
         pri |-> 0, val |-> <<"10", "mx">>]

\* The records the callers of each specification draw from.
MixedInputs == <<TxtA, TxtE, TxtB>>
AppendInputs == <<TxtA, MxHi, SrvA, SvcA>>
MatchInputs == <<TxtA, TxtE, MxLo, MxHi>>
GenericInputs == <<TxtA, TxtE, RrMx>>
SharedInputs == <<TxtA>>

\* The status codes the remote side answers with: a success and a failure.
RespCodes == {1000, 2302}

Procs == 1 .. NumProcs

\* A provider holds one client; each goroutine may still hold one it was given.
SessIds == 1 .. (NumProcs + 1)

Range(f) == {f[x] : x \in DOMAIN f}

\* The batches of at most MaxBatch records of a list.
Batches(list) == UNION {[1 .. m -> Range(list)] : m \in 0 .. MaxBatch}

\* The store after createRecord of each record of a batch, ids from 1.
RECURSIVE StoreOf(_)
StoreOf(batch) ==
    IF batch = <<>> THEN {}
    ELSE LET n == Len(batch)
         IN  ServerCreate(StoreOf(SubSeq(batch, 1, n - 1)), n,
                          createRecordRequest(inwxRecord(batch[n]), getDomain(Zone)))

\* The stores a zone may hold before the first call: at most MaxInit records,
\* each one created through the API from a record of the list.
InitBatches(list) ==
    LET n == Len(list)
        idx == UNION {{s \in [1 .. m -> 1 .. n] :
                          \A k \in 1 .. m : k < m => s[k] <= s[k + 1]} :
                      m \in 0 .. MaxInit}
    IN  {[k \in DOMAIN s |-> list[s[k]]] : s \in idx}

(***************************************************************************)
(* State.                                                                   *)
(***************************************************************************)
VARIABLES
    store,      \* the remote store: a set of entries
    nextId,     \* the id the remote store gives the next record
    client,     \* Provider.client: a session, 0 when nil
    clientMu,   \* Provider.clientMu: the goroutine holding it, 0 when free
    sess,       \* the sessions: what the remote side knows of each client
    call,       \* per goroutine: the Provider call it is in, and its locals
    inputs,     \* the records the callers draw their batches from
    codec,      \* a record on its way through inwxRecord and libdnsRecord
    reply       \* a response on its way through checkResponse

vars == <<store, nextId, client, clientMu, sess, call, inputs, codec, reply>>

\* What the remote side knows of a client: the state of its session, and how
\* many account.login, account.unlock and account.logout requests it got;
\* tfa: its login was answered with the second factor challenge.
FreeSess ==
    [state |-> "free", logins |-> 0, unlocks |-> 0, logouts |-> 0, tfa |-> FALSE]

NoEntry ==
    [k |-> 0, snap |-> {}, res0 |-> 0, found |-> <<>>, looked |-> FALSE, done |-> FALSE]

NoNative == [id |-> 0, name |-> <<>>, type |-> "", content |-> <<>>, ttl |-> 0, prio |-> 0]

NoCodec == [stage |-> "off", r |-> ParseError, native |-> NoNative, back |-> ParseError]

NoPrev == [op |-> "none", records |-> <<>>, store |-> {}]

NoResponse == [code |-> 0, message |-> "", reasonCode |-> "", reason |-> ""]

NoReply == [stage |-> "off", r |-> NoResponse, ok |-> FALSE, err |-> NoResponse]

\* A goroutine outside any call.  records, results and err are the arguments
\* and the return values of its last call; log (the record RPCs the call
\* issued), ent (the batch entry in hand: the store when it was taken up,
\* what its lookup found), prev (the call that returned without error just
\* before this one, and the store it left), sid (the client getClient met or made) and auth (how
\* getClient ended: "login" after its own login, "shared" with the client the
\* provider held, "failed") are history.
IdleCall ==
    [pc |-> "idle", op |-> "none", records |-> <<>>, i |-> 1, results |-> <<>>,
     err |-> "", cli |-> 0, matches |-> <<>>, j |-> 1, log |-> <<>>,
     ent |-> NoEntry, prev |-> NoPrev, sid |-> 0, auth |-> ""]

Returned(c) ==
    IF c.op # "none" /\ c.err = ""
    THEN [op |-> c.op, records |-> c.records, store |-> store]
    ELSE NoPrev

Rpc(m, k, id, ttl, ok) == [m |-> m, k |-> k, id |-> id, ttl |-> ttl, ok |-> ok]

\* The remote side serves a request on a session that is logged in, and
\* answers with the code drawn for it; call succeeds when checkResponse does.
RpcOk(s, code) == s # 0 /\ sess[s].state = "in" /\ checkResponse(code)

\* newClient: a client no one refers to any more.
NewSess ==
    CHOOSE s \in SessIds :
        /\ s # client
        /\ \A q \in Procs : call[q].cli # s
        /\ \A t \in SessIds : (t # client /\ \A q \in Procs : call[q].cli # t) => s <= t

InitOn(list) ==
    /\ inputs = list
    /\ \E b \in InitBatches(list) : store = StoreOf(b) /\ nextId = Len(b) + 1
    /\ client = 0
    /\ clientMu = 0
    /\ sess = [s \in SessIds |-> FreeSess]
    /\ call = [p \in Procs |-> IdleCall]
    /\ codec = NoCodec
    /\ reply = NoReply

(***************************************************************************)
(* A Provider call begins.  A goroutine makes one modifying call and reads  *)
(* the zone with GetRecords after it.                                       *)
(***************************************************************************)
Call(p, o, recs) ==
    /\ call[p].pc = "idle"
    /\ o # "Get" => call[p].op = "none"
    /\ call' = [call EXCEPT ![p] =
                   [IdleCall EXCEPT !.pc = "getClient", !.op = o, !.records = recs,
                                    !.prev = Returned(call[p])]]
    /\ UNCHANGED <<store, nextId, client, clientMu, sess, inputs, codec, reply>>

\* The caller repeats the SetRecords that has just returned without error,
\* with the same batch.
SetAgain(p) ==
    /\ call[p].pc = "idle"
    /\ call[p].op = "Set"
    /\ call[p].err = ""
    /\ call[p].prev = NoPrev
    /\ call' = [call EXCEPT ![p] =
                   [IdleCall EXCEPT !.pc = "getClient", !.op = "Set",
                                    !.records = call[p].records,
                                    !.prev = Returned(call[p])]]
    /\ UNCHANGED <<store, nextId, client, clientMu, sess, inputs, codec, reply>>

\* The caller deletes the record its AppendRecords has just added.
DeleteAppended(p) ==
    /\ call[p].pc = "idle"
    /\ call[p].op = "Append"
    /\ call[p].err = ""
    /\ call' = [call EXCEPT ![p] =
                   [IdleCall EXCEPT !.pc = "getClient", !.op = "Delete",
                                    !.records = call[p].records,
                                    !.prev = Returned(call[p])]]
    /\ UNCHANGED <<store, nextId, client, clientMu, sess, inputs, codec, reply>>

(***************************************************************************)
(* Provider.getClient, under clientMu from its first line to its return.    *)
(***************************************************************************)
\* A getClient that makes a client whether or not the provider holds one.
GetClientEnterAlways(p) ==
    /\ call[p].pc = "getClient"
    /\ clientMu = 0
    /\ client' = NewSess
    /\ sess' = [sess EXCEPT ![NewSess] = [FreeSess EXCEPT !.state = "new"]]
    /\ clientMu' = p
    /\ call' = [call EXCEPT ![p].pc = "login", ![p].sid = NewSess]
    /\ UNCHANGED <<store, nextId, inputs, codec, reply>>

\* Lock; a provider that holds a client returns it, one that holds none makes
\* a client with newClient and stores it before it logs in.
GetClientEnter(p) ==
    /\ call[p].pc = "getClient"
    /\ clientMu = 0
    /\ IF client = 0
       THEN /\ client' = NewSess
            /\ sess' = [sess EXCEPT ![NewSess] = [FreeSess EXCEPT !.state = "new"]]
            /\ clientMu' = p
            /\ call' = [call EXCEPT ![p].pc = "login", ![p].sid = NewSess]
       ELSE /\ call' = [call EXCEPT ![p].pc = "body", ![p].cli = client,
                                    ![p].sid = client, ![p].auth = "shared"]
            /\ UNCHANGED <<client, sess, clientMu>>
    /\ UNCHANGED <<store, nextId, inputs, codec, reply>>

\* A login whose error is dropped.
loginOutcomeIgnoreError(ok, tfa, otp) ==
    IF ~ok \/ ~tfa THEN "ok" ELSE IF ~otp THEN "otp" ELSE "unlock"

\* A login that does not answer the second factor challenge.
loginOutcomeNoUnlock(ok, tfa, otp) == IF ~ok THEN "remote" ELSE "ok"

\* client.login after account.login returned: the error of the call, no
\* challenge and done, the error of the code generation, or on to unlock.
loginOutcome(ok, tfa, otp) ==
    IF ~ok THEN "remote"
    ELSE IF ~tfa THEN "ok"
    ELSE IF ~otp THEN "otp"
    ELSE "unlock"

\* client.login: account.login; when the answer asks for a second factor, the
\* one-time code is generated; the failure of either is getClient's error.
\* The remote side logs the session in, or holds it locked for the second
\* factor.
Login(p) ==
    /\ call[p].pc = "login"
    /\ \E code \in RespCodes, tfa \in BOOLEAN, otp \in BOOLEAN :
        LET ok  == checkResponse(code)
            out == loginOutcome(ok, tfa, otp)
        IN  /\ sess' = [sess EXCEPT
                    ![client].logins = @ + 1,
                    ![client].state = IF ~ok THEN @ ELSE IF tfa THEN "locked" ELSE "in",
                    ![client].tfa = ok /\ tfa]
            /\ call' = [call EXCEPT ![p] =
                    IF out = "ok"
                    THEN [@ EXCEPT !.pc = "body", !.cli = client, !.auth = "login"]
                    ELSE IF out = "unlock"
                    THEN [@ EXCEPT !.pc = "unlock"]
                    ELSE [@ EXCEPT !.pc = "rm", !.err = out, !.auth = "failed"]]
            /\ clientMu' = IF out = "unlock" THEN clientMu ELSE 0
    /\ UNCHANGED <<store, nextId, client, inputs, codec, reply>>

\* client.unlock: account.unlock with the one-time code.
Unlock(p) ==
    /\ call[p].pc = "unlock"
    /\ \E code \in RespCodes :
        LET ok == checkResponse(code)
        IN  IF ok
            THEN /\ sess' = [sess EXCEPT ![client].state = "in",
                                         ![client].unlocks = @ + 1]
                 /\ call' = [call EXCEPT ![p].pc = "body", ![p].cli = client,
                                         ![p].auth = "login"]
            ELSE /\ sess' = [sess EXCEPT ![client].unlocks = @ + 1]
                 /\ call' = [call EXCEPT ![p].pc = "rm", ![p].err = "remote",
                                         ![p].auth = "failed"]
    /\ clientMu' = 0
    /\ UNCHANGED <<store, nextId, client, inputs, codec, reply>>

(***************************************************************************)
(* Provider.removeClient, deferred by every call.                           *)
(***************************************************************************)
\* Where the goroutine is when the deferred removeClient is through: back at
\* its caller, or, unwinding from a nil dereference, at the end of the
\* program.
Left(c) == IF c.err = "panic" THEN "panic" ELSE "idle"

\* A removeClient that does not wait for clientMu.
RemoveClientEnterNoLock(p) ==
    /\ call[p].pc = "rm"
    /\ IF client = 0
       THEN /\ call' = [call EXCEPT ![p].pc = Left(call[p]), ![p].cli = 0]
            /\ UNCHANGED clientMu
       ELSE /\ call' = [call EXCEPT ![p].pc = "logout"]
            /\ clientMu' = p
    /\ UNCHANGED <<store, nextId, client, sess, inputs, codec, reply>>

\* Lock; return at once when the provider holds no client.
RemoveClientEnter(p) ==
    /\ call[p].pc = "rm"
    /\ clientMu = 0
    /\ IF client = 0
       THEN /\ call' = [call EXCEPT ![p].pc = Left(call[p]), ![p].cli = 0]
            /\ UNCHANGED clientMu
       ELSE /\ call' = [call EXCEPT ![p].pc = "logout"]
            /\ clientMu' = p
    /\ UNCHANGED <<store, nextId, client, sess, inputs, codec, reply>>

\* A removeClient that returns the error of the logout.
LogoutEscalate(p) ==
    /\ call[p].pc = "logout"
    /\ \E code \in RespCodes :
        LET ok == checkResponse(code)
        IN  /\ sess' = [sess EXCEPT
                    ![client].logouts = @ + 1,
                    ![client].state = IF ok /\ @ = "in" THEN "out" ELSE @]
            /\ call' = [call EXCEPT ![p] =
                    IF ok THEN [@ EXCEPT !.pc = "clear"]
                    ELSE [@ EXCEPT !.pc = "clear", !.err = "remote", !.results = <<>>]]
    /\ UNCHANGED <<store, nextId, client, clientMu, inputs, codec, reply>>

\* client.logout: account.logout, its error dropped.  The remote side ends
\* a session that is logged in.
Logout(p) ==
    /\ call[p].pc = "logout"
    /\ \E code \in RespCodes :
        LET ok == checkResponse(code)
        IN  /\ sess' = [sess EXCEPT
                    ![client].logouts = @ + 1,
                    ![client].state = IF ok /\ @ = "in" THEN "out" ELSE @]
            /\ call' = [call EXCEPT ![p].pc = "clear"]
    /\ UNCHANGED <<store, nextId, client, clientMu, inputs, codec, reply>>

\* A removeClient that keeps the client it logged out.
ClearKeep(p) ==
    /\ call[p].pc = "clear"
    /\ clientMu' = 0
    /\ call' = [call EXCEPT ![p].pc = Left(call[p]), ![p].cli = 0]
    /\ UNCHANGED <<store, nextId, client, sess, inputs, codec, reply>>

\* p.client = nil, unlock, and the Provider call returns.
Clear(p) ==
    /\ call[p].pc = "clear"
    /\ client' = 0
    /\ clientMu' = 0
    /\ call' = [call EXCEPT ![p].pc = Left(call[p]), ![p].cli = 0]
    /\ UNCHANGED <<store, nextId, sess, inputs, codec, reply>>

(***************************************************************************)
(* The bodies of the four Provider calls.  A failed call returns nil        *)
(* records and the error; removeClient runs as the call returns.            *)
(***************************************************************************)
\* A failure that is dropped: the loop goes on with the next record.
FailSkip(c, e, log) == [c EXCEPT !.pc = "body", !.i = @ + 1, !.log = log]

Fail(c, e, log) == [c EXCEPT !.pc = "rm", !.err = e, !.results = <<>>, !.log = log]

\* The entry i of the batch is taken up: the store and the results as they
\* are now.
Taken(c) ==
    [k |-> c.i, snap |-> store, res0 |-> Len(c.results), found |-> <<>>,
     looked |-> FALSE, done |-> FALSE]

\* results = append(results, record), with the record left out.
ResultsAppendDrop(results, record) == results

\* results = append(results, record)
ResultsAppend(results, record) == Append(results, record)

\* The native records of a listing, decoded one by one.
Decoded(recs) == [k \in DOMAIN recs |-> libdnsRecord(recs[k], Zone)]

\* A listing that leaves out the records that do not parse.
ListingPartial(st) ==
    LET res == Decoded(ServerInfo(st, getRecordsRequest(getDomain(Zone))))
    IN  [results |-> SelectSeq(res, LAMBDA r : r # ParseError), err |-> ""]

\* What GetRecords returns when its RPC succeeds on a store: the decoded
\* records of the zone, or nothing and an error when one does not parse.
Listing(st) ==
    LET res == Decoded(ServerInfo(st, getRecordsRequest(getDomain(Zone))))
    IN  IF \E k \in DOMAIN res : res[k] = ParseError
        THEN [results |-> <<>>, err |-> "parse"]
        ELSE [results |-> res, err |-> ""]

\* GetRecords: client.getRecords, then libdnsRecord on every record; the first
\* record that does not parse fails the call.
GetRecords(p) ==
    /\ call[p].pc = "body"
    /\ call[p].op = "Get"
    /\ \E code \in RespCodes :
        LET c    == call[p]
            ok   == RpcOk(c.cli, code)
            log  == Append(c.log, Rpc("info", 0, 0, 0, ok))
            got  == Listing(store)
        IN  call' = [call EXCEPT ![p] =
                IF ~ok THEN Fail(c, "remote", log)
                ELSE IF got.err # "" THEN Fail(c, got.err, log)
                ELSE [c EXCEPT !.pc = "rm", !.results = got.results, !.log = log]]
    /\ UNCHANGED <<store, nextId, client, clientMu, sess, inputs, codec, reply>>

\* The loop of AppendRecords, SetRecords and DeleteRecords is over.
ReturnResults(p) ==
    /\ call[p].pc = "body"
    /\ call[p].op # "Get"
    /\ call[p].i > Len(call[p].records)
    /\ call' = [call EXCEPT ![p].pc = "rm"]
    /\ UNCHANGED <<store, nextId, client, clientMu, sess, inputs, codec, reply>>

\* client.createRecord for the entry in hand, on the client getClient returned.
CreateStep(p, ent) ==
    \E code \in RespCodes :
        LET c   == call[p]
            req == createRecordRequest(inwxRecord(c.records[c.i]), getDomain(Zone))
            ok  == RpcOk(c.cli, code)
            log == Append(c.log, Rpc("create", c.i, IF ok THEN nextId ELSE 0, req.ttl, ok))
        IN  IF ok
            THEN /\ store' = ServerCreate(store, nextId, req)
                 /\ nextId' = nextId + 1
                 /\ call' = [call EXCEPT ![p] =
                        [c EXCEPT !.pc = "body", !.i = @ + 1, !.log = log,
                                  !.results = ResultsAppend(@, c.records[c.i]),
                                  !.ent = [ent EXCEPT !.done = TRUE]]]
            ELSE /\ call' = [call EXCEPT ![p] =
                        [Fail(c, "remote", log) EXCEPT !.ent = [ent EXCEPT !.done = TRUE]]]
                 /\ UNCHANGED <<store, nextId>>

\* AppendRecords: one createRecord per record, no lookup.
AppendCreate(p) ==
    /\ call[p].pc = "body"
    /\ call[p].op = "Append"
    /\ call[p].i <= Len(call[p].records)
    /\ CreateStep(p, Taken(call[p]))
    /\ UNCHANGED <<client, clientMu, sess, inputs, codec, reply>>

\* SetRecords that overwrites the first match when there are several.
SetDecisionFirst(matches) ==
    IF Len(matches) = 0 THEN "setCreate" ELSE "setUpdate"

\* SetRecords that creates whatever its lookup found.
SetDecisionCreate(matches) == "setCreate"

\* SetRecords on the matches of its lookup: create for none, fail for more
\* than one, update for exactly one.
SetDecision(matches) ==
    IF Len(matches) = 0 THEN "setCreate"
    ELSE IF Len(matches) > 1 THEN "ambiguous"
    ELSE "setUpdate"

\* client.findRecords for the entry in hand, called on p.client as it is now.
\* On a provider without a client the call dereferences nil: the goroutine
\* panics, and its deferred removeClient runs before the program ends.
FindStep(p, matchContent) ==
    \E code \in RespCodes :
        LET c   == call[p]
            req == findRecordsRequest(inwxRecord(c.records[c.i]), getDomain(Zone),
                                      matchContent)
            ok  == RpcOk(client, code)
            log == Append(c.log, Rpc("info", c.i, 0, 0, ok))
            found == ServerInfo(store, req)
            ent == [Taken(c) EXCEPT !.found = found, !.looked = ok]
        IN  call' = [call EXCEPT ![p] =
                IF client = 0
                THEN [c EXCEPT !.pc = "rm", !.err = "panic", !.results = <<>>]
                ELSE IF ~ok
                THEN [Fail(c, "remote", log) EXCEPT !.ent = [ent EXCEPT !.done = TRUE]]
                ELSE IF matchContent
                THEN IF found = <<>>
                     THEN [c EXCEPT !.i = @ + 1, !.log = log, !.matches = found,
                                    !.ent = [ent EXCEPT !.done = TRUE]]
                     ELSE [c EXCEPT !.pc = "delete", !.j = 1, !.log = log,
                                    !.matches = found, !.ent = ent]
                ELSE IF SetDecision(found) = "ambiguous"
                THEN [Fail(c, "ambiguous", log) EXCEPT
                               !.matches = found, !.ent = [ent EXCEPT !.done = TRUE]]
                ELSE [c EXCEPT !.pc = SetDecision(found), !.log = log,
                               !.matches = found, !.ent = ent]]

\* SetRecords: the lookup by type and name of the entry in hand.
SetFind(p) ==
    /\ call[p].pc = "body"
    /\ call[p].op = "Set"
    /\ call[p].i <= Len(call[p].records)
    /\ FindStep(p, FALSE)
    /\ UNCHANGED <<store, nextId, client, clientMu, sess, inputs, codec, reply>>

\* SetRecords, no match: create.
SetCreate(p) ==
    /\ call[p].pc = "setCreate"
    /\ CreateStep(p, call[p].ent)
    /\ UNCHANGED <<client, clientMu, sess, inputs, codec, reply>>

\* An update addressed to the id after the match's.
UpdateTargetNext(matches) == matches[1].id + 1

\* The id SetRecords addresses its update to.
UpdateTarget(matches) == matches[1].id

\* SetRecords, one match: updateRecord with the id of the match.
SetUpdate(p) ==
    /\ call[p].pc = "setUpdate"
    /\ \E code \in RespCodes :
        LET c   == call[p]
            rec == [inwxRecord(c.records[c.i]) EXCEPT !.id = UpdateTarget(c.matches)]
            req == updateRecordRequest(rec)
            ok  == RpcOk(c.cli, code) /\ \E e \in store : e.id = req.id
            log == Append(c.log, Rpc("update", c.i, req.id, req.ttl, ok))
            ent == [c.ent EXCEPT !.done = TRUE]
        IN  IF rec.id = 0
            THEN /\ call' = [call EXCEPT ![p] = [Fail(c, "noid", c.log) EXCEPT !.ent = ent]]
                 /\ store' = store
            ELSE IF ok
            THEN /\ store' = ServerUpdate(store, req)
                 /\ call' = [call EXCEPT ![p] =
                        [c EXCEPT !.pc = "body", !.i = @ + 1, !.log = log,
                                  !.results = ResultsAppend(@, c.records[c.i]), !.ent = ent]]
            ELSE /\ call' = [call EXCEPT ![p] = [Fail(c, "remote", log) EXCEPT !.ent = ent]]
                 /\ store' = store
    /\ UNCHANGED <<nextId, client, clientMu, sess, inputs, codec, reply>>

\* DeleteRecords: the lookup by type, name and content of the entry in hand.
DeleteFind(p) ==
    /\ call[p].pc = "body"
    /\ call[p].op = "Delete"
    /\ call[p].i <= Len(call[p].records)
    /\ FindStep(p, TRUE)
    /\ UNCHANGED <<store, nextId, client, clientMu, sess, inputs, codec, reply>>

\* A loop over the matches that stops after the first.
DeleteLastFirst(c) == TRUE

\* The loop over exactMatches is at its last record.
DeleteLast(c) == c.j = Len(c.matches)

\* DeleteRecords: deleteRecord for the next record the lookup returned.
DeleteOne(p) ==
    /\ call[p].pc = "delete"
    /\ \E code \in RespCodes :
        LET c    == call[p]
            id   == c.matches[c.j].id
            ok   == RpcOk(c.cli, code) /\ \E e \in store : e.id = id
            log  == Append(c.log, Rpc("delete", c.i, id, 0, ok))
            last == DeleteLast(c)
        IN  IF ok
            THEN /\ store' = ServerDelete(store, id)
                 /\ call' = [call EXCEPT ![p] =
                        [c EXCEPT !.pc = IF last THEN "body" ELSE "delete",
                                  !.i = IF last THEN @ + 1 ELSE @,
                                  !.j = @ + 1, !.log = log,
                                  !.results = ResultsAppend(@, c.records[c.i]),
                                  !.ent = [@ EXCEPT !.done = last]]]
            ELSE /\ call' = [call EXCEPT ![p] =
                        [Fail(c, "remote", log) EXCEPT !.ent = [c.ent EXCEPT !.done = TRUE]]]
                 /\ store' = store
    /\ UNCHANGED <<nextId, client, clientMu, sess, inputs, codec, reply>>

(***************************************************************************)
(* The codec on its own: a record is encoded by inwxRecord and the result   *)
(* decoded by libdnsRecord.                                                 *)
(***************************************************************************)
CodecNames == {<<"a">>, <<"b">>, <<"@">>}

CodecTTLs == {60 * Second, 300 * Second, 600 * Second}

Typed(kind, type, pris, vals) ==
    [kind : {kind}, type : {type}, name : CodecNames, ttl : CodecTTLs, pri : pris,
     val : vals]

\* The records of every kind: TXT, MX, SRV and service binding records, and
\* untyped RRs of a plain type (A), of the TXT type and of the MX type.
CodecRecords ==
    Typed("TXT", "TXT", {0}, {<<>>, <<"v1">>, <<"v1", "v2">>})
        \cup Typed("MX", "MX", {0, 10, 20}, {<<"mx">>})
        \cup Typed("SRV", "SRV", {0, 10}, {<<"5", "5060", "sip">>})
        \cup Typed("SVCB", "HTTPS", {1}, {<<".">>, <<".", "alpn=h3,h2">>})
        \cup Typed("RR", "A", {0}, {<<"192.0.2.1">>})
        \cup Typed("RR", "TXT", {0}, {<<"v1">>})
        \cup Typed("RR", "MX", {0}, {<<"10", "mx">>})

InitCodec ==
    /\ inputs = <<>>
    /\ store = {}
    /\ nextId = 1
    /\ client = 0
    /\ clientMu = 0
    /\ sess = [s \in SessIds |-> FreeSess]
    /\ call = [p \in Procs |-> IdleCall]
    /\ \E r \in CodecRecords : codec = [NoCodec EXCEPT !.stage = "record", !.r = r]
    /\ reply = NoReply

Encode ==
    /\ codec.stage = "record"
    /\ codec' = [codec EXCEPT !.stage = "native", !.native = inwxRecord(codec.r)]
    /\ UNCHANGED <<store, nextId, client, clientMu, sess, call, inputs, reply>>

Decode ==
    /\ codec.stage = "native"
    /\ codec' = [codec EXCEPT !.stage = "generic",
                              !.back = libdnsRecord(codec.native, Zone)]
    /\ UNCHANGED <<store, nextId, client, clientMu, sess, call, inputs, reply>>

NextCodec == Encode \/ Decode

SpecCodec == InitCodec /\ [][NextCodec]_vars

(***************************************************************************)
(* checkResponse on its own: call classifies the response it decoded.       *)
(***************************************************************************)
\* Status codes around the two ends of the success band, and far from it.
StatusCodes ==
    {0, CodeOkLow - 1, CodeOkLow, CodeOkLow + 1, CodeOkHigh - 1, CodeOkHigh,
     CodeOkHigh + 1, 2302}

Responses ==
    [code : StatusCodes,
     message : {"", "Command completed successfully", "Object exists"},
     reasonCode : {"", "EXISTS"},
     reason : {"", "Record exists"}]

InitStatus ==
    /\ inputs = <<>>
    /\ store = {}
    /\ nextId = 1
    /\ client = 0
    /\ clientMu = 0
    /\ sess = [s \in SessIds |-> FreeSess]
    /\ call = [p \in Procs |-> IdleCall]
    /\ codec = NoCodec
    /\ \E r \in Responses : reply = [NoReply EXCEPT !.stage = "response", !.r = r]

\* return responseData, checkResponse(response)
Classify ==
    /\ reply.stage = "response"
    /\ reply' = [reply EXCEPT
                    !.stage = "checked",
                    !.ok = checkResponse(reply.r.code),
                    !.err = IF checkResponse(reply.r.code) THEN NoResponse
                            ELSE errorResponse(reply.r)]
    /\ UNCHANGED <<store, nextId, client, clientMu, sess, call, inputs, codec>>

NextStatus == Classify

SpecStatus == InitStatus /\ [][NextStatus]_vars

(***************************************************************************)
(* Specifications.  One caller: goroutine 1 calls, the others stay idle.    *)
(***************************************************************************)
Session(p) ==
    \/ GetClientEnter(p)
    \/ Login(p)
    \/ Unlock(p)
    \/ RemoveClientEnter(p)
    \/ Logout(p)
    \/ Clear(p)

Reads(p) ==
    \/ Call(p, "Get", <<>>)
    \/ GetRecords(p)
    \/ ReturnResults(p)

Next ==
    \/ \E recs \in Batches(inputs) : Call(1, "Append", recs)
    \/ \E recs \in Batches(inputs) : Call(1, "Set", recs)
    \/ \E recs \in Batches(inputs) : Call(1, "Delete", recs)
    \/ AppendCreate(1)
    \/ SetFind(1)
    \/ SetCreate(1)
    \/ SetUpdate(1)
    \/ DeleteFind(1)
    \/ DeleteOne(1)
    \/ Reads(1)
    \/ Session(1)

NextAppend ==
    \/ \E recs \in Batches(inputs) : Call(1, "Append", recs)
    \/ AppendCreate(1)
    \/ Reads(1)
    \/ Session(1)

NextSet ==
    \/ \E recs \in Batches(inputs) : Call(1, "Set", recs)
    \/ SetFind(1)
    \/ SetCreate(1)
    \/ SetUpdate(1)
    \/ Reads(1)
    \/ Session(1)

NextDelete ==
    \/ \E recs \in Batches(inputs) : Call(1, "Delete", recs)
    \/ DeleteFind(1)
    \/ DeleteOne(1)
    \/ Reads(1)
    \/ Session(1)

\* Every call, over records of a few TTLs.
Spec == InitOn(MixedInputs) /\ [][Next]_vars

\* AppendRecords, over records of every kind.
SpecAppend == InitOn(AppendInputs) /\ [][NextAppend]_vars

\* SetRecords and DeleteRecords, over records that share type and name.
SpecSet == InitOn(MatchInputs) /\ [][NextSet]_vars

SpecDelete == InitOn(MatchInputs) /\ [][NextDelete]_vars

\* SetRecords on an account that holds a second zone, with a record of the
\* name and type of a record of the list.
InitFrame ==
    /\ inputs = MatchInputs
    /\ \E b \in InitBatches(MatchInputs) :
          /\ store = ServerCreate(StoreOf(b), Len(b) + 1,
                         createRecordRequest(inwxRecord(TxtA), getDomain(OtherZone)))
          /\ nextId = Len(b) + 2
    /\ client = 0
    /\ clientMu = 0
    /\ sess = [s \in SessIds |-> FreeSess]
    /\ call = [p \in Procs |-> IdleCall]
    /\ codec = NoCodec
    /\ reply = NoReply

SpecFrame == InitFrame /\ [][NextSet]_vars

\* AppendRecords of one record, and DeleteRecords of that record after it.
NextAppendDelete ==
    \/ \E r \in Range(inputs) : Call(1, "Append", <<r>>)
    \/ DeleteAppended(1)
    \/ AppendCreate(1)
    \/ DeleteFind(1)
    \/ DeleteOne(1)
    \/ ReturnResults(1)
    \/ Session(1)

SpecAppendDelete == InitOn(MatchInputs) /\ [][NextAppendDelete]_vars

\* SetRecords, and the same SetRecords once more.
NextSetTwice ==
    \/ \E recs \in Batches(inputs) : Call(1, "Set", recs)
    \/ SetAgain(1)
    \/ SetFind(1)
    \/ SetCreate(1)
    \/ SetUpdate(1)
    \/ ReturnResults(1)
    \/ Session(1)

SpecSetTwice == InitOn(MatchInputs) /\ [][NextSetTwice]_vars

\* Every call, over a zone that may hold a record GetRecords cannot decode.
SpecGeneric == InitOn(GenericInputs) /\ [][Next]_vars

(***************************************************************************)
(* Several callers on one Provider, over a zone that starts empty: every    *)
(* goroutine makes one call, a SetRecords of the first record of the list   *)
(* or a GetRecords, and their steps interleave.                             *)
(***************************************************************************)
InitShared ==
    /\ inputs = SharedInputs
    /\ store = {}
    /\ nextId = 1
    /\ client = 0
    /\ clientMu = 0
    /\ sess = [s \in SessIds |-> FreeSess]
    /\ call = [p \in Procs |-> IdleCall]
    /\ codec = NoCodec
    /\ reply = NoReply

\* No goroutine has ended the program with a panic.
Running == \A p \in Procs : call[p].pc # "panic"

NextShared ==
    \E p \in Procs :
        \/ (Running /\ call[p].op = "none" /\ Call(p, "Set", <<inputs[1]>>))
        \/ (Running /\ call[p].op = "none" /\ Call(p, "Get", <<>>))
        \/ (Running /\ GetRecords(p))
        \/ (Running /\ ReturnResults(p))
        \/ (Running /\ SetFind(p))
        \/ (Running /\ SetCreate(p))
        \/ (Running /\ SetUpdate(p))
        \/ (Running /\ GetClientEnter(p))
        \/ (Running /\ Login(p))
        \/ (Running /\ Unlock(p))
        \/ (Running /\ RemoveClientEnter(p))
        \/ (Running /\ Logout(p))
        \/ (Running /\ Clear(p))

SpecShared == InitShared /\ [][NextShared]_vars

\* The steps of the body of the call of goroutine p.
Body(p) ==
    \/ GetRecords(p)
    \/ ReturnResults(p)
    \/ SetFind(p)
    \/ SetCreate(p)
    \/ SetUpdate(p)

\* Weak fairness of the body of goroutine p, its enabling condition written
\* out: a step of the body is possible exactly when the program runs and p
\* is between getClient and removeClient.
BodyFair(p) ==
    []<>~(Running /\ call[p].pc \in {"body", "setCreate", "setUpdate"})
        \/ []<><<Running /\ Body(p)>>_vars

\* The enabling condition BodyFair is written with, an invariant of
\* SpecShared.
BodyEnabled ==
    \A p \in Procs :
        (Running /\ call[p].pc \in {"body", "setCreate", "setUpdate"})
            <=> ENABLED <<Running /\ Body(p)>>_vars

\* The same callers, when every RPC returns and the scheduler lets every
\* goroutine that can take a step take it: a goroutine waiting for clientMu
\* gets it once the calls before it are through.
SpecSharedFair ==
    SpecShared /\ \A p \in Procs : WF_vars(Running /\ Session(p)) /\ BodyFair(p)

(***************************************************************************)
(* What the properties are stated in: the part of the log that belongs to   *)
(* the entry in hand, and the remote records a generic record corresponds   *)
(* to.                                                                      *)
(***************************************************************************)
EntLog(c) == SelectSeq(c.log, LAMBDA x : x.k = c.ent.k)

Methods(log) == [k \in DOMAIN log |-> log[k].m]

EntRecord(c) == c.records[c.ent.k]

\* The content and the priority of a record as the remote store keeps them:
\* the preference of an MX and the priority of an SRV are not in the content.
ContentOf(r) == IF r.kind \in {"MX", "SRV"} THEN r.val ELSE RR(r).data

PriorityOf(r) == IF r.kind \in {"MX", "SRV"} THEN r.pri ELSE 0

SameTypeName(e, r) ==
    /\ e.type = RR(r).type
    /\ RelativeName(e.name, getDomain(Zone)) = RR(r).name

TypeNameMatches(st, r) == {e \in st : SameTypeName(e, r)}

ExactMatches(st, r) == {e \in st : SameTypeName(e, r) /\ e.content = ContentOf(r)}

\* The TTL a record written with TTL ttl is kept with, under a floor in seconds.
Floored(ttl, floor) == IF ttl < floor * Second THEN floor * Second ELSE ttl

\* The entry in hand of a SetRecords call is through, its lookup succeeded.
SetEntryDone(p) ==
    /\ call[p].op = "Set"
    /\ call[p].ent.done
    /\ call[p].ent.looked

\* SetRecords on an entry with exactly one remote record of its type and
\* name: one update to the id of that record and no create; when the update
\* succeeds the store has as many records as before and the record of that id
\* has the content and the priority of the input, and the TTL of the input
\* under the floor.
SetOneMatchUpdates(p, floor) ==
    LET c  == call[p]
        ms == TypeNameMatches(c.ent.snap, EntRecord(c))
    IN  (SetEntryDone(p) /\ Cardinality(ms) = 1) =>
            LET m   == CHOOSE e \in ms : TRUE
                log == EntLog(c)
            IN  /\ Methods(log) = <<"info", "update">>
                /\ log[2].id = m.id
                /\ log[2].ok =>
                      /\ Cardinality(store) = Cardinality(c.ent.snap)
                      /\ \E e \in store :
                            /\ e.id = m.id
                            /\ e.content = ContentOf(EntRecord(c))
                            /\ e.prio = PriorityOf(EntRecord(c))
                            /\ e.ttl * Second = Floored(EntRecord(c).ttl, floor)

\* C1: when exactly one remote record has the type and name of an input
\* record, SetRecords issues exactly one update, addressed to the id of that
\* record, and no create; afterwards the store has the same number of
\* records, the record keeps its id, its content and priority are those of
\* the input, and its TTL is the input's TTL raised to 300 seconds when it is
\* lower.
C1_SetOneMatch == \A p \in Procs : SetOneMatchUpdates(p, MinTTL)

\* C1 as it was stated: the TTL of the updated record is the TTL of the input.
C1_SetOneMatchInputTTL == \A p \in Procs : SetOneMatchUpdates(p, 0)

\* One match, the update succeeded and changed the record; the input's TTL
\* was below the floor.
C1_Witness ==
    \E p \in Procs :
        /\ SetEntryDone(p)
        /\ call[p].err = ""
        /\ Cardinality(TypeNameMatches(call[p].ent.snap, EntRecord(call[p]))) = 1
        /\ Methods(EntLog(call[p])) = <<"info", "update">>
        /\ EntRecord(call[p]).ttl < MinTTL * Second
        /\ store # call[p].ent.snap

\* A generic record equal to r in type, name, data and TTL is in the list.
Lists(results, r) == \E k \in DOMAIN results : compareRecords(results[k], r)

\* C2: when no remote record has the type and name of an input record,
\* SetRecords issues one create for it and no update; when the create
\* succeeds and the input's TTL is at least 300 seconds, GetRecords on the
\* store contains the record, and a GetRecords that follows a SetRecords of
\* one such record returns it.
C2_SetNoMatch ==
    \A p \in Procs :
        LET c == call[p]
        IN  /\ (SetEntryDone(p) /\ TypeNameMatches(c.ent.snap, EntRecord(c)) = {}) =>
                  /\ Methods(EntLog(c)) = <<"info", "create">>
                  /\ (EntLog(c)[2].ok /\ EntRecord(c).ttl >= MinTTL * Second) =>
                        /\ Cardinality(store) = Cardinality(c.ent.snap) + 1
                        /\ Lists(Listing(store).results, EntRecord(c))
            /\ (/\ c.op = "Get" /\ c.pc = "idle" /\ c.err = ""
                /\ c.prev.op = "Set" /\ Len(c.prev.records) = 1
                /\ c.prev.records[1].ttl >= MinTTL * Second) =>
                  Lists(c.results, c.prev.records[1])

\* A SetRecords of one record nothing matched created it, and the GetRecords
\* after it returned it.
C2_Witness ==
    \E p \in Procs :
        /\ call[p].op = "Get" /\ call[p].pc = "idle" /\ call[p].err = ""
        /\ call[p].prev.op = "Set" /\ Len(call[p].prev.records) = 1
        /\ call[p].prev.records[1].ttl >= MinTTL * Second
        /\ Cardinality(store) = 1
        /\ Lists(call[p].results, call[p].prev.records[1])

\* C3: when two or more remote records have the type and name of an input
\* record, SetRecords fails on that record with the ambiguity error, issues
\* no create, update or delete for it, and leaves the store as it was.
C3_SetAmbiguous ==
    \A p \in Procs :
        LET c == call[p]
        IN  (SetEntryDone(p)
                /\ Cardinality(TypeNameMatches(c.ent.snap, EntRecord(c))) >= 2) =>
                  /\ c.err = "ambiguous"
                  /\ c.results = <<>>
                  /\ Methods(EntLog(c)) = <<"info">>
                  /\ store = c.ent.snap

\* A SetRecords met two records of the type and name of its second entry,
\* after its first entry was written.
C3_Witness ==
    \E p \in Procs :
        /\ SetEntryDone(p)
        /\ call[p].ent.k = 2
        /\ Cardinality(TypeNameMatches(call[p].ent.snap, EntRecord(call[p]))) >= 2
        /\ call[p].err = "ambiguous"

\* The entry in hand of a DeleteRecords call is through: its lookup and every
\* delete it issued succeeded.
DeleteEntryDone(p) ==
    /\ call[p].op = "Delete"
    /\ call[p].ent.done
    /\ call[p].ent.looked
    /\ call[p].err = ""

\* The results the call gained on the entry in hand.
EntResults(c) == SubSeq(c.results, c.ent.res0 + 1, Len(c.results))

\* A record of the list has the type, name and content of r.
ListsContent(results, r) ==
    \E k \in DOMAIN results :
        /\ RR(results[k]).type = RR(r).type
        /\ RR(results[k]).name = RR(r).name
        /\ ContentOf(results[k]) = ContentOf(r)

\* DeleteRecords on an entry with exactly one remote record of its type, name
\* and content: that record and no other is removed, the result gains the
\* input record, and GetRecords on the store has no record of that type, name
\* and content.
DeleteExactRemoves(p) ==
    LET c  == call[p]
        ms == ExactMatches(c.ent.snap, EntRecord(c))
    IN  (DeleteEntryDone(p) /\ Cardinality(ms) = 1) =>
            /\ store = c.ent.snap \ ms
            /\ EntResults(c) = <<EntRecord(c)>>
            /\ ~ListsContent(Listing(store).results, EntRecord(c))

\* C4: when exactly one remote record has the type, name and content of an
\* input record, DeleteRecords removes exactly that record; the result
\* contains the input record, a GetRecords that follows does not contain it,
\* and the records of the same name with another content remain.
C4_DeleteExact == \A p \in Procs : DeleteExactRemoves(p)

\* C4 for the input records whose content is not empty.
C4_DeleteExactNonEmpty ==
    \A p \in Procs :
        (call[p].ent.k > 0 /\ ContentOf(EntRecord(call[p])) # <<>>) =>
            DeleteExactRemoves(p)

\* C5: when no remote record has the type, name and content of an input
\* record, DeleteRecords issues no delete for it, adds nothing to the result
\* for it, raises no error, and leaves the store as it was.
C5_DeleteNoMatch ==
    \A p \in Procs :
        LET c == call[p]
        IN  (/\ c.op = "Delete" /\ c.ent.done /\ c.ent.looked
             /\ ExactMatches(c.ent.snap, EntRecord(c)) = {}) =>
                /\ Methods(EntLog(c)) = <<"info">>
                /\ c.err = ""
                /\ EntResults(c) = <<>>
                /\ store = c.ent.snap

\* C5 for the input records whose content is not empty.
C5_DeleteNoMatchNonEmpty ==
    \A p \in Procs :
        LET c == call[p]
        IN  (/\ c.op = "Delete" /\ c.ent.done /\ c.ent.looked
             /\ ContentOf(EntRecord(c)) # <<>>
             /\ ExactMatches(c.ent.snap, EntRecord(c)) = {}) =>
                /\ Methods(EntLog(c)) = <<"info">>
                /\ c.err = ""
                /\ EntResults(c) = <<>>
                /\ store = c.ent.snap

\* C6: when the lookup by type, name and content returns k >= 2 remote
\* records, DeleteRecords deletes all k, with one delete per returned id, and
\* the result contains the input record k times; the multiplicity raises no
\* error.
C6_DeleteDuplicates ==
    \A p \in Procs :
        LET c == call[p]
            k == Len(c.ent.found)
        IN  (/\ c.op = "Delete" /\ c.ent.looked /\ k >= 2
             /\ (c.ent.done \/ c.pc = "delete")) =>
                /\ c.err # "" => \E x \in Range(c.log) : ~x.ok
                /\ (c.ent.done /\ c.err = "") =>
                      /\ Methods(EntLog(c)) = <<"info">> \o [j \in 1 .. k |-> "delete"]
                      /\ \A j \in 1 .. k : EntLog(c)[j + 1].id = c.ent.found[j].id
                      /\ store = {e \in c.ent.snap :
                                    \A j \in 1 .. k : e.id # c.ent.found[j].id}
                      /\ EntResults(c) = [j \in 1 .. k |-> EntRecord(c)]

\* DeleteRecords of one record deleted two remote records of its type, name
\* and content and returned the record twice.
C6_Witness ==
    \E p \in Procs :
        /\ DeleteEntryDone(p)
        /\ Cardinality(ExactMatches(call[p].ent.snap, EntRecord(call[p]))) = 2
        /\ Len(call[p].ent.found) = 2
        /\ ContentOf(EntRecord(call[p])) # <<>>
        /\ Len(call[p].records) = 1
        /\ Len(call[p].results) = 2

\* The call of goroutine p has left its body without an error.
Succeeded(p, op) ==
    /\ call[p].op = op
    /\ call[p].pc \in {"rm", "logout", "clear", "idle"}
    /\ call[p].err = ""

\* A GetRecords of goroutine p has returned without an error, after a call
\* op that returned without an error.
GotAfter(p, op) ==
    /\ call[p].op = "Get"
    /\ call[p].pc = "idle"
    /\ call[p].err = ""
    /\ call[p].prev.op = op

\* C7: AppendRecords on a batch of n records issues no lookup and exactly one
\* create per input record, in the order of the input, and every successful
\* create adds a remote record, also when an identical record exists; when it
\* succeeds it returns exactly the n input records in their order.
C7_AppendCreates ==
    \A p \in Procs :
        LET c == call[p]
        IN  c.op = "Append" =>
                /\ \A j \in DOMAIN c.log : c.log[j].m = "create" /\ c.log[j].k = j
                /\ Len(c.log) <= Len(c.records)
                /\ (c.ent.done /\ c.err = "") =>
                      /\ Cardinality(store) = Cardinality(c.ent.snap) + 1
                      /\ Len(c.log) = c.ent.k
                /\ Succeeded(p, "Append") =>
                      /\ Len(c.log) = Len(c.records)
                      /\ c.results = c.records

\* AppendRecords returned a batch of twice the same record, created both, and
\* an identical record was in the store before the call.
C7_Witness ==
    \E p \in Procs :
        /\ Succeeded(p, "Append")
        /\ Len(call[p].records) = 2
        /\ call[p].records[1] = call[p].records[2]
        /\ Cardinality(ExactMatches(store, call[p].records[1])) >= 3

\* C8: after an AppendRecords of records with TTLs of at least 300 seconds
\* succeeds (TXT, MX, SRV and service binding records), its result contains
\* every input record, GetRecords on the store contains a record equal in
\* type, name, data and TTL to every input record, and so does the GetRecords
\* that follows.
C8_AppendThenList ==
    \A p \in Procs :
        LET c == call[p]
        IN  /\ Succeeded(p, "Append") =>
                  \A k \in DOMAIN c.records :
                      c.records[k].ttl >= MinTTL * Second =>
                          /\ Lists(c.results, c.records[k])
                          /\ Lists(Listing(store).results, c.records[k])
            /\ GotAfter(p, "Append") =>
                  \A k \in DOMAIN c.prev.records :
                      c.prev.records[k].ttl >= MinTTL * Second =>
                          Lists(c.results, c.prev.records[k])

\* A GetRecords returned after an AppendRecords of an MX and an SRV record.
C8_Witness ==
    \E p \in Procs :
        /\ GotAfter(p, "Append")
        /\ {call[p].prev.records[k].kind : k \in DOMAIN call[p].prev.records}
               = {"MX", "SRV"}
        /\ \A k \in DOMAIN call[p].prev.records :
               Lists(call[p].results, call[p].prev.records[k])

\* A record equal to r in type, name and data, with the TTL ttl, is in the
\* list.
ListsWithTTL(results, r, ttl) ==
    \E k \in DOMAIN results :
        /\ RR(results[k]).type = RR(r).type
        /\ RR(results[k]).name = RR(r).name
        /\ RR(results[k]).data = RR(r).data
        /\ RR(results[k]).ttl = ttl

\* C9: every create and update carries the TTL max(requested, 300) in
\* seconds; a record written through AppendRecords or SetRecords is read back
\* with a TTL of exactly 300 seconds when its TTL was lower, and with exactly
\* its TTL when that was 300 seconds or more.
C9_TTLFloor ==
    \A p \in Procs :
        LET c == call[p]
        IN  /\ \A j \in DOMAIN c.log :
                  c.log[j].m \in {"create", "update"} =>
                      c.log[j].ttl * Second = Floored(c.records[c.log[j].k].ttl, MinTTL)
            /\ (c.op \in {"Append", "Set"} /\ c.ent.done /\ c.err = "") =>
                  ListsWithTTL(Listing(store).results, EntRecord(c),
                               Floored(EntRecord(c).ttl, MinTTL))
            /\ (GotAfter(p, "Append")
                   \/ (GotAfter(p, "Set") /\ Len(c.prev.records) = 1)) =>
                  \A k \in DOMAIN c.prev.records :
                      ListsWithTTL(c.results, c.prev.records[k],
                                   Floored(c.prev.records[k].ttl, MinTTL))

\* A record appended with 60 seconds was created with 300 and read back with
\* 300 seconds by the GetRecords that followed.
C9_Witness ==
    \E p \in Procs :
        /\ GotAfter(p, "Append")
        /\ \E k \in DOMAIN call[p].prev.records :
              /\ call[p].prev.records[k].ttl = 60 * Second
              /\ ListsWithTTL(call[p].results, call[p].prev.records[k],
                              MinTTL * Second)
              /\ ~ListsWithTTL(call[p].results, call[p].prev.records[k], 60 * Second)

\* C10: for a record r of every kind, libdnsRecord(inwxRecord(r), zone) has
\* the type, name, data and TTL of r; the preference of an MX and the
\* priority of an SRV survive the split into the priority field.
C10_RoundTrip ==
    codec.stage = "generic" => compareRecords(codec.back, codec.r)

\* C10 for the records that are not an untyped RR of the MX or SRV type.
C10_RoundTripTyped ==
    (codec.stage = "generic"
        /\ ~(codec.r.kind = "RR" /\ codec.r.type \in {"MX", "SRV"})) =>
            compareRecords(codec.back, codec.r)

(***************************************************************************)
(* The session of a call.                                                   *)
(***************************************************************************)
\* The call of goroutine p has returned.
Back(p) == call[p].pc = "idle" /\ call[p].op # "none"

\* The call of goroutine p is between getClient and removeClient.
InBody(p) == call[p].pc \in {"body", "setCreate", "setUpdate", "delete"}

\* C11: with one caller, every call opens a session of its own with a new
\* login (the client is new, and gets one login), works on that session,
\* and, however it ends, has sent one logout on it and left the provider
\* without a client when it returns.
C11_ScopedSession ==
    \A p \in Procs :
        LET c == call[p]
        IN  /\ c.auth # "shared"
            /\ c.pc = "login" =>
                  /\ client = c.sid
                  /\ sess[c.sid].state = "new"
                  /\ sess[c.sid].logins = 0
            /\ InBody(p) =>
                  /\ client = c.sid
                  /\ c.cli = c.sid
                  /\ sess[c.sid].logins = 1
                  /\ sess[c.sid].logouts = 0
            /\ Back(p) =>
                  /\ client = 0
                  /\ c.sid # 0
                  /\ sess[c.sid].logins = 1
                  /\ sess[c.sid].logouts = 1

\* A GetRecords that failed to decode a record has returned, after a
\* SetRecords that returned without error: the session is logged out and the
\* provider holds no client.
C11_Witness ==
    \E p \in Procs :
        /\ Back(p)
        /\ call[p].op = "Get"
        /\ call[p].err = "parse"
        /\ call[p].prev.op = "Set"
        /\ client = 0
        /\ sess[call[p].sid].logouts = 1

\* A session that completed its login (and unlock) and was sent no logout.
Alive(s) == sess[s].state = "in" /\ sess[s].logouts = 0

Opening(p) == call[p].pc \in {"login", "unlock"}

\* C13: with concurrent calls on one provider, every session gets at most one
\* login, one unlock and one logout, and while a call opens a session every
\* other session that got a login has got its logout already: no session is
\* opened while the provider holds one.
C13_NoDoubleOpenClose ==
    /\ \A s \in SessIds :
          sess[s].logins <= 1 /\ sess[s].unlocks <= 1 /\ sess[s].logouts <= 1
    /\ \A p \in Procs :
          Opening(p) =>
              /\ client = call[p].sid
              /\ \A s \in SessIds \ {call[p].sid} :
                    sess[s].logins = 1 => sess[s].logouts = 1

\* Two calls that overlapped on one session have returned: the session got
\* one login, from the call that opened it, and one logout.
C13_Witness ==
    \E p, q \in Procs :
        /\ p # q
        /\ Back(p) /\ Back(q)
        /\ call[p].auth = "login" /\ call[q].auth = "shared"
        /\ call[p].sid = call[q].sid
        /\ sess[call[p].sid].logins = 1
        /\ sess[call[p].sid].logouts = 1

\* The goroutine is inside getClient or removeClient.
Inside(p) == call[p].pc \in {"login", "unlock", "logout", "clear"}

\* C14: at most one goroutine is inside getClient or removeClient, and it
\* holds clientMu, so a login (with its unlock) and a logout never overlap;
\* Provider.client is written only by a step that holds clientMu.
C14_LifecycleExclusion ==
    /\ [](/\ Cardinality({p \in Procs : Inside(p)}) <= 1
          /\ \A p \in Procs : Inside(p) <=> clientMu = p)
    /\ [][client' # client => (clientMu # 0 \/ clientMu' # 0)]_vars

\* One goroutine is logging out under clientMu while another waits to enter
\* getClient and a third party, the provider, still holds the client.
C14_Witness ==
    \E p, q \in Procs :
        /\ p # q
        /\ call[p].pc = "logout"
        /\ clientMu = p
        /\ call[q].pc \in {"getClient", "rm"}
        /\ client # 0

(***************************************************************************)
(* Batches and errors.                                                      *)
(***************************************************************************)
\* The ids the successful deletes of a log removed.
Deleted(log) == {log[j].id : j \in {x \in DOMAIN log : log[x].m = "delete" /\ log[x].ok}}

\* C15: AppendRecords, SetRecords and DeleteRecords take the records of the
\* batch in the order of the input, none left out.  An RPC that fails is the
\* last record RPC of the call: it is not sent again and no entry after it
\* is taken up; the call returns the error and nil, and so does a
\* SetRecords on an ambiguous entry.  What the call changed before stays:
\* the store is as it was when the failing entry was taken up, less what
\* that entry deleted, and the records the call created are in it.
C15_BatchAbort ==
    \A p \in Procs :
        LET c   == call[p]
            log == c.log
            n   == Len(log)
        IN  c.op \in {"Append", "Set", "Delete"} =>
                /\ \A j \in 1 .. n - 1 :
                      /\ log[j].ok
                      /\ log[j].k <= log[j + 1].k
                      /\ log[j + 1].k <= log[j].k + 1
                /\ n > 0 => (log[1].k = 1 /\ log[n].k = c.ent.k)
                /\ Succeeded(p, c.op) => c.ent.k = Len(c.records)
                /\ (n > 0 /\ ~log[n].ok) =>
                      /\ c.err = "remote"
                      /\ c.i = log[n].k
                      /\ store = {e \in c.ent.snap : e.id \notin Deleted(EntLog(c))}
                /\ c.err = "ambiguous" =>
                      /\ log[n].m = "info" /\ log[n].ok
                      /\ c.i = log[n].k
                      /\ store = c.ent.snap
                /\ c.err # "" =>
                      /\ c.results = <<>>
                      /\ c.pc \in {"rm", "logout", "clear", "idle"}
                      /\ c.auth # "failed" => (n > 0 /\ (c.err = "remote" <=> ~log[n].ok))
                /\ \A j \in 1 .. n :
                      /\ (log[j].m = "create" /\ log[j].ok) =>
                            \E e \in store : e.id = log[j].id
                      /\ (log[j].m = "delete" /\ log[j].ok) =>
                            \A e \in store : e.id # log[j].id

\* A SetRecords of two records created the first, failed on an RPC of the
\* second and returned: the first is in the store.
C15_Witness ==
    \E p \in Procs :
        LET c == call[p]
        IN  /\ Back(p)
            /\ c.op = "Set"
            /\ c.err = "remote"
            /\ Len(c.records) = 2
            /\ Len(c.log) >= 3
            /\ c.log[2].m = "create" /\ c.log[2].ok
            /\ ~c.log[Len(c.log)].ok
            /\ \E e \in store : e.id = c.log[2].id

\* getClient of the call of goroutine p is over.
Opened(p) == call[p].sid # 0 /\ ~Opening(p)

\* The session of the call was not logged in: its login was rejected, its
\* unlock was rejected, or no code was generated for its challenge.
Rejected(p) == Opened(p) /\ sess[call[p].sid].state \in {"new", "locked"}

\* C16: when the login is rejected, the unlock is rejected or the one-time
\* code cannot be generated, the call returns that error and nil, and sends
\* no nameserver.info, createRecord, updateRecord or deleteRecord.
C16_AuthFailureFatal ==
    \A p \in Procs :
        LET c == call[p]
            s == sess[c.sid]
        IN  Rejected(p) =>
                /\ c.log = <<>>
                /\ c.results = <<>>
                /\ c.pc \in {"rm", "logout", "clear", "idle"}
                /\ c.err = (IF s.tfa /\ s.unlocks = 0 THEN "otp" ELSE "remote")

\* An AppendRecords of two records whose unlock was rejected has returned.
C16_Witness ==
    \E p \in Procs :
        /\ Back(p)
        /\ Rejected(p)
        /\ call[p].op = "Append"
        /\ Len(call[p].records) = 2
        /\ sess[call[p].sid].unlocks = 1
        /\ call[p].err = "remote"

\* The parts of C17 that do not depend on the code generation: an unlock is
\* sent only to a session whose login succeeded with the challenge, and
\* getClient returns a client only when the session is logged in: the login
\* succeeded and, when it was challenged, the unlock was sent and succeeded.
UnlockFollowsLogin(p) ==
    LET c == call[p]
        s == sess[c.sid]
    IN  /\ c.pc = "unlock" => (s.logins = 1 /\ s.tfa /\ s.state = "locked")
        /\ (c.sid # 0 /\ s.unlocks >= 1) => (s.logins = 1 /\ s.tfa /\ s.unlocks = 1)
        /\ (Opened(p) /\ c.err = "") =>
              /\ c.auth = "login"
              /\ s.logins = 1
              /\ s.state \in {"in", "out"}
              /\ s.tfa => s.unlocks = 1

\* C17: the unlock is sent if and only if the login succeeded, its answer
\* carries the second factor challenge and the one-time code was generated;
\* it follows the login; getClient returns a client only when the login
\* succeeded and, when challenged, the code was generated and the unlock
\* succeeded.
C17_TwoStepAuth ==
    \A p \in Procs :
        /\ UnlockFollowsLogin(p)
        /\ Opened(p) =>
              (sess[call[p].sid].unlocks = 1
                  <=> (sess[call[p].sid].tfa /\ call[p].err # "otp"))

\* C17 as it was stated: the unlock is sent if and only if the login
\* succeeded and its answer carries the challenge.
C17_UnlockIffChallenge ==
    \A p \in Procs :
        /\ UnlockFollowsLogin(p)
        /\ Opened(p) => (sess[call[p].sid].unlocks = 1 <=> sess[call[p].sid].tfa)

\* A call is in its body on a session that was challenged and unlocked.
C17_Witness ==
    \E p \in Procs :
        /\ InBody(p)
        /\ call[p].auth = "login"
        /\ sess[call[p].sid].tfa
        /\ sess[call[p].sid].unlocks = 1
        /\ sess[call[p].sid].state = "in"

\* C18: call reports success exactly when the status code c of the response
\* satisfies 1000 <= c <= 1500, both ends included; for every other code its
\* error carries the code, the message, the reason code and the reason of
\* the response unchanged.
C18_StatusClassification ==
    reply.stage = "checked" =>
        /\ reply.ok <=> (reply.r.code >= 1000 /\ reply.r.code <= 1500)
        /\ ~reply.ok =>
              /\ reply.err.code = reply.r.code
              /\ reply.err.message = reply.r.message
              /\ reply.err.reasonCode = reply.r.reasonCode
              /\ reply.err.reason = reply.r.reason

\* A response with the code 1500, the upper end of the band, was classified
\* a success.
C18_Witness ==
    /\ reply.stage = "checked"
    /\ reply.r.code = 1500
    /\ reply.ok

\* C19: what a call returns is what it held when its body ended: no step of
\* removeClient changes the records or the error of the call, whether the
\* logout succeeds or fails, and the call returns with Provider.client nil.
C19_LogoutSwallowed ==
    [][\A p \in Procs :
          call[p].pc \in {"rm", "logout", "clear"} =>
              /\ call'[p].results = call[p].results
              /\ call'[p].err = call[p].err
              /\ call'[p].pc = "idle" => client' = 0]_vars

\* A GetRecords returned records and no error, and the provider holds no
\* client, after a logout that failed: the session is still logged in.
C19_Witness ==
    \E p \in Procs :
        /\ Back(p)
        /\ call[p].op = "Get"
        /\ call[p].err = ""
        /\ call[p].results # <<>>
        /\ sess[call[p].sid].logouts = 1
        /\ sess[call[p].sid].state = "in"
        /\ client = 0

\* The native records of the zone, in the order the remote side lists them.
ZoneRecords(st) ==
    LET es == ById({e \in st : e.domain = getDomain(Zone)})
    IN  [k \in DOMAIN es |-> NativeOf(es[k])]

\* C20: GetRecords returns an error and no record, or no error and exactly
\* one decoded record for every native record of the zone, in the same
\* order; when a native record does not decode it returns an error and no
\* record.
C20_ListAllOrNothing ==
    \A p \in Procs :
        LET c   == call[p]
            nat == ZoneRecords(store)
        IN  (c.op = "Get" /\ c.pc \in {"rm", "logout", "clear", "idle"}) =>
                /\ c.err # "" => c.results = <<>>
                /\ c.err = "" =>
                      /\ Len(c.results) = Len(nat)
                      /\ \A k \in DOMAIN nat :
                            /\ c.results[k] = libdnsRecord(nat[k], Zone)
                            /\ c.results[k] # ParseError
                /\ (c.log # <<>> /\ c.log[1].ok
                        /\ \E k \in DOMAIN nat : libdnsRecord(nat[k], Zone) = ParseError) =>
                      c.err = "parse"

\* A GetRecords on a zone of two records, of which the second does not
\* decode, returned an error and no record.
C20_Witness ==
    \E p \in Procs :
        LET nat == ZoneRecords(store)
        IN  /\ Back(p)
            /\ call[p].op = "Get"
            /\ call[p].err = "parse"
            /\ call[p].results = <<>>
            /\ Len(nat) = 2
            /\ libdnsRecord(nat[1], Zone) # ParseError
            /\ libdnsRecord(nat[2], Zone) = ParseError

(***************************************************************************)
(* What DeleteRecords and SetRecords may touch.                             *)
(***************************************************************************)
\* The remote record e reads back as a record of the type, name and data of r.
SameGeneric(e, r) ==
    LET g == RR(libdnsRecord(NativeOf(e), Zone))
    IN  g.type = RR(r).type /\ g.name = RR(r).name /\ g.data = RR(r).data

\* Every record the entry in hand of a DeleteRecords removed reads back with
\* the type, name and data of the input record.
DeletesOnlyEqual(p) ==
    LET c == call[p]
    IN  (c.op = "Delete" /\ c.ent.k > 0) =>
            \A e \in c.ent.snap \ store : SameGeneric(e, EntRecord(c))

\* C21: DeleteRecords removes no remote record whose generic type, name or
\* data differs from the input record's; an MX record of the same target
\* under another preference is not removed.
C21_DeleteOnlyEqual == \A p \in Procs : DeletesOnlyEqual(p)

\* C21 for the MX records alone.
C21_DeleteOnlyEqualMX ==
    \A p \in Procs :
        (call[p].ent.k > 0 /\ EntRecord(call[p]).kind = "MX") => DeletesOnlyEqual(p)

\* C21 for the records that are not MX and whose content is not empty.
C21_DeleteOnlyEqualPlain ==
    \A p \in Procs :
        (call[p].ent.k > 0 /\ EntRecord(call[p]).kind # "MX"
            /\ ContentOf(EntRecord(call[p])) # <<>>) => DeletesOnlyEqual(p)

\* The lookup of the entry in hand of a DeleteRecords returned records of
\* the content of the input record only.
LookupOnContent(p) ==
    LET c == call[p]
    IN  (c.op = "Delete" /\ c.ent.looked) =>
            \A k \in DOMAIN c.ent.found :
                c.ent.found[k].content = ContentOf(EntRecord(c))

\* C22: findRecords with matchContent returns only remote records whose
\* content is the content of the input record, also when that content is
\* the empty string.
C22_ExactLookupContent == \A p \in Procs : LookupOnContent(p)

\* C22 for the input records whose content is not empty.
C22_ExactLookupNonEmpty ==
    \A p \in Procs :
        (call[p].ent.k > 0 /\ ContentOf(EntRecord(call[p])) # <<>>) =>
            LookupOnContent(p)

(***************************************************************************)
(* The session several calls share.                                         *)
(***************************************************************************)
\* The call of goroutine p has a record RPC to issue next.
HasRpc(p) ==
    \/ call[p].pc \in {"setCreate", "setUpdate", "delete"}
    \/ call[p].pc = "body" /\ call[p].op = "Get"
    \/ call[p].pc = "body" /\ call[p].op # "Get" /\ call[p].i <= Len(call[p].records)

\* C23: a call that has a record RPC to issue holds a session that is
\* logged in at that moment.
C23_RpcOnLiveSession ==
    \A p \in Procs : HasRpc(p) => sess[call[p].cli].state = "in"

\* C23, the logout alone: the session of a call that has a record RPC to
\* issue has not been logged out by another call.
C23_NotLoggedOutUnderCall ==
    \A p \in Procs : HasRpc(p) => sess[call[p].cli].state # "out"

\* The call of goroutine p is at the lookup of SetRecords or DeleteRecords,
\* which reads p.client.
AtLookup(p) ==
    /\ call[p].pc = "body"
    /\ call[p].op \in {"Set", "Delete"}
    /\ call[p].i <= Len(call[p].records)

\* C24: the client of the provider is set whenever a SetRecords or a
\* DeleteRecords is at its lookup.
C24_ClientSetAtLookup == \A p \in Procs : AtLookup(p) => client # 0

\* C24, by its effect: no lookup dereferences a provider without a client.
C24_NoNilLookup == \A p \in Procs : call[p].pc # "panic"

\* The login of session s, and its unlock when one was asked for, succeeded
\* at some time.
LoggedInOnce(s) == sess[s].state \in {"in", "out"}

\* C25: the client getClient returned to a call without an error is one
\* whose login, and unlock, succeeded; the client of a failed login is
\* handed to no other call.
C25_ReturnedClientLoggedIn ==
    \A p \in Procs : call[p].cli # 0 => LoggedInOnce(call[p].cli)

\* C25 for the call that made the client.
C25_OwnClientLoggedIn ==
    \A p \in Procs :
        (call[p].cli # 0 /\ call[p].auth = "login") => LoggedInOnce(call[p].cli)

(***************************************************************************)
(* SetRecords and what it leaves of the zone.                               *)
(***************************************************************************)
\* The call of goroutine p is the second of two SetRecords of one batch, the
\* first of which returned without error, and has returned.
SecondSetBack(p) ==
    /\ Back(p)
    /\ call[p].op = "Set"
    /\ call[p].prev.op = "Set"

\* C26: a SetRecords repeated with the batch of a SetRecords that returned
\* without error finds no entry ambiguous (it fails when its login or one of
\* its RPCs fails, and not otherwise), and, returning without error, returns
\* the batch and leaves the store, records and ids, as the first left it.
C26_SetIdempotent ==
    \A p \in Procs :
        SecondSetBack(p) =>
            /\ call[p].err # "ambiguous"
            /\ call[p].err = "" =>
                   /\ store = call[p].prev.store
                   /\ call[p].results = call[p].records

\* A batch of two records was set twice, the first time creating a record
\* and the second time updating it, and the store is as the first left it.
C26_Witness ==
    /\ SecondSetBack(1)
    /\ call[1].err = ""
    /\ Len(call[1].records) = 2
    /\ Methods(call[1].log) = <<"info", "update", "info", "update">>
    /\ store = call[1].prev.store
    /\ store # {}

\* The SetRecords of goroutine p has returned without error, and every
\* record it returned is in the store under its type, name and data.
ResultsInStore(p) ==
    (Back(p) /\ call[p].op = "Set" /\ call[p].err = "") =>
        \A k \in DOMAIN call[p].results :
            \E e \in store : SameGeneric(e, call[p].results[k])

\* No two entries of the batch are of one type and name.
DistinctTypeName(records) ==
    \A k, l \in DOMAIN records :
        k # l => \/ RR(records[k]).type # RR(records[l]).type
                 \/ RR(records[k]).name # RR(records[l]).name

\* C27: after a SetRecords that returned without error, every record of the
\* result is in the store with its type, name and data, whatever the batch.
C27_SetResultInStore == \A p \in Procs : ResultsInStore(p)

\* C27 for the batches whose entries differ in type or name.
C27_SetResultInStoreDistinct ==
    \A p \in Procs : DistinctTypeName(call[p].records) => ResultsInStore(p)

\* The entry e of the store is of the zone and of the type and name of an
\* entry of the batch of a SetRecords under way.
InBatch(e) ==
    /\ e.domain = getDomain(Zone)
    /\ \E p \in Procs :
          /\ call[p].op = "Set"
          /\ \E k \in DOMAIN call[p].records : SameTypeName(e, call[p].records[k])

\* One step leaves every entry outside the batch as it is, and removes none.
FrameStep ==
    /\ \A e \in store : ~InBatch(e) => e \in store'
    /\ \A e \in store : \E f \in store' : f.id = e.id

\* C28: SetRecords issues no nameserver.deleteRecord, and no step of it,
\* whether it ends well or fails, changes a record whose type or name
\* differs from those of every entry of the batch, or a record of another
\* zone.
C28_SetFrame ==
    /\ [](\A p \in Procs :
            call[p].op = "Set" => "delete" \notin Range(Methods(call[p].log)))
    /\ [][FrameStep]_vars

\* A SetRecords has updated a record of the zone, which holds a record of
\* another type as well, and the record of the other zone is as it was.
C28_Witness ==
    /\ Back(1)
    /\ call[1].op = "Set"
    /\ call[1].records = <<TxtE>>
    /\ Methods(call[1].log) = <<"info", "update">>
    /\ \E e \in store : e.domain = getDomain(Zone) /\ ~InBatch(e)
    /\ \E e \in store :
          /\ e.domain = getDomain(OtherZone)
          /\ e.type = "TXT"
          /\ e.content = <<"v1">>

(***************************************************************************)
(* AppendRecords undone by DeleteRecords.                                   *)
(***************************************************************************)
\* The records of a store without their ids.
Content(st) ==
    {[type |-> e.type, name |-> e.name, content |-> e.content, ttl |-> e.ttl,
      prio |-> e.prio] : e \in st}

\* The store an AppendRecords of one record found, given the store it left:
\* the record it created has the highest id.
BeforeAppend(st) == {e \in st : \E f \in st : f.id > e.id}

\* The DeleteRecords of goroutine p, of the record its AppendRecords added
\* to a store without a record of that type, name and content, has returned
\* without error.
AppendDeleteBack(p) ==
    /\ Back(p)
    /\ call[p].op = "Delete"
    /\ call[p].err = ""
    /\ call[p].prev.op = "Append"
    /\ ExactMatches(BeforeAppend(call[p].prev.store), call[p].records[1]) = {}

AppendDeleteRestores(p) ==
    AppendDeleteBack(p) =>
        /\ Len(call[p].results) = 1
        /\ Content(store) = Content(BeforeAppend(call[p].prev.store))

\* C29: AppendRecords of a record r the store holds no record of the type,
\* name and content of, then DeleteRecords of r: the result of DeleteRecords
\* has one entry and the records of the store are those before the
\* AppendRecords.
C29_AppendDeleteRestores == \A p \in Procs : AppendDeleteRestores(p)

\* C29 for the records whose content is not empty.
C29_AppendDeleteNonEmpty ==
    \A p \in Procs :
        (call[p].records # <<>> /\ ContentOf(call[p].records[1]) # <<>>) =>
            AppendDeleteRestores(p)

\* An MX record was added to a zone that holds a TXT record and deleted
\* again, and the zone is as it was.
C29_RestoredMX ==
    /\ AppendDeleteBack(1)
    /\ call[1].records = <<MxLo>>
    /\ Len(call[1].results) = 1
    /\ store # {}
    /\ Content(store) = Content(BeforeAppend(call[1].prev.store))

(***************************************************************************)
(* Termination.                                                             *)
(***************************************************************************)
\* The call of goroutine p is under way.
Calling(p) == call[p].pc # "idle"

\* C30: every call that was made returns in the end, and clientMu is held
\* only inside getClient and removeClient, never by a goroutine whose call
\* has returned.
C30_Terminates ==
    /\ [](\A p \in Procs : clientMu = p => Inside(p))
    /\ \A p \in Procs : Calling(p) ~> ~Calling(p)

\* C30, the lock alone: clientMu is held only inside getClient and
\* removeClient, and is free when no call is under way.
C30_LockReleased ==
    /\ \A p \in Procs : clientMu = p => Inside(p)
    /\ (\A p \in Procs : ~Calling(p) \/ ~Running) => clientMu = 0

\* C30 but for the panic: every call returns in the end, or a goroutine has
\* ended the program.
C30_TerminatesOrPanics ==
    \A p \in Procs : Calling(p) ~> (~Calling(p) \/ ~Running)


====
